---- MODULE Spec2Model ----
(***************************************************************************)
(* Tracking-by-detection pipeline of src/solution.py: candidate graph      *)
(* construction from a label array (nodes_from_segmentation,               *)
(* add_cand_edges, add_drift_dist_attr), the motile ILP set up and solved  *)
(* by the solve_* functions, the constraints of src/utils.py               *)
(* (InOutSymmetry, MinTrackLength) and relabel_segmentation.  Costs,       *)
(* scores and distances are fixed-point numbers in tenths.                 *)
(***************************************************************************)
EXTENDS Integers, Sequences, FiniteSets, TLC

(* ------------------------------ bounds --------------------------------- *)
\* number of time frames of the label array (len(segmentation))
NumFrames == 4
\* largest label value occurring in the label array
MaxLabel == 3
\* largest number of labelled regions in one label array
MaxDets == 3
\* largest max_edge_distance passed to add_cand_edges
MaxDist == 1
\* largest number of labelled regions in an array handed to a solve function
MaxSolveDets == 4
\* largest min_edges passed to MinTrackLength
MaxMinEdges == 2
\* largest number of rows of the ground-truth CSV, and largest id in it
MaxRows == 3

Frames == 0..(NumFrames - 1)
Labels == 1..MaxLabel
\* pixel coordinates (x, y) of one frame: a 2 x 2 image
Pixels == (0..1) \X (0..1)
Cells == Frames \X Pixels

(* ----------------------------- helpers --------------------------------- *)
Range(s) == {s[i] : i \in 1..Len(s)}

Min(S) == CHOOSE m \in S : \A n \in S : m <= n

RECURSIVE SortedSeq(_)
\* sorted(S) for a finite set of integers
SortedSeq(S) ==
    IF S = {} THEN <<>>
    ELSE LET m == Min(S) IN <<m>> \o SortedSeq(S \ {m})

\* raster rank of a cell (frame, then x, then y)
CellRank(c) == c[1] * 4 + c[2][1] * 2 + c[2][2]

RECURSIVE CellSeq(_)
\* the cells of S in raster order
CellSeq(S) ==
    IF S = {} THEN <<>>
    ELSE LET c == CHOOSE c \in S : \A e \in S : CellRank(c) <= CellRank(e)
         IN <<c>> \o CellSeq(S \ {c})

(* ------------------------------ inputs --------------------------------- *)
\* labellings of the cells cs[1..n]: every region is a single pixel (no label
\* twice in one frame), labels are numbered by first occurrence, and a label
\* may occur again in a later frame
RECURSIVE Labelings(_, _)
Labelings(cs, n) ==
    IF n = 0 THEN {<<>>}
    ELSE UNION { { Append(ls, k) :
                     k \in { k \in Labels :
                               /\ \A j \in 1..(n - 1) :
                                      cs[j][1] = cs[n][1] => ls[j] # k
                               /\ \A m \in 1..(k - 1) : m \in Range(ls) } } :
                 ls \in Labelings(cs, n - 1) }

\* the label array (t, x, y) -> label with the cells cs labelled ls, 0 elsewhere
SegOf(cs, ls) ==
    [t \in Frames |-> [p \in Pixels |->
        IF \E i \in 1..Len(cs) : cs[i] = <<t, p>>
        THEN ls[CHOOSE i \in 1..Len(cs) : cs[i] = <<t, p>>]
        ELSE 0]]

\* the sets of at most MaxDets labelled cells
CellSets == { S \in SUBSET Cells : Cardinality(S) <= MaxDets }

\* the cells of the arrays handed to the solve functions: three frames, three
\* pixels each
SolveCells == (0..2) \X {<<0, 0>>, <<0, 1>>, <<1, 1>>}

SolveCellSets == { S \in SUBSET SolveCells : Cardinality(S) <= MaxSolveDets }

\* probability scores in tenths (0.5, 1.0)
ScoreVals == {5, 10}

\* half-resolution probability maps, one pixel per frame of a 2 x 2 image:
\* 1.0 everywhere, and 1.0 in the even frames with 0.5 in the odd ones
UniformProbs == [t \in Frames |-> [q \in {<<0, 0>>} |-> 10]]

AlternatingProbs == [t \in Frames |-> [q \in {<<0, 0>>} |-> IF t % 2 = 0 THEN 10 ELSE 5]]

ProbMaps == {UniformProbs, AlternatingProbs}

\* line scenes: a 3 x 1 image per frame, one single-pixel detection in each of
\* the frames 0, 1, 2, at x = xs[t], labelled t + 1, every score 1.0
LinePixels == (0..2) \X {0}
LineSeg(xs) ==
    [t \in Frames |-> [p \in LinePixels |->
        IF t \in DOMAIN xs /\ p = <<xs[t], 0>> THEN t + 1 ELSE 0]]
LineProbs == [t \in Frames |-> [q \in {<<0, 0>>, <<1, 0>>} |-> 10]]
\* the max_edge_distance values used with the line scenes
LineDistances == {1, 5}

(* ------------------------------ graphs --------------------------------- *)
\* a networkx DiGraph: node ids in insertion order, node attributes, edges,
\* and the drift_dist attribute of the edges that carry one
EmptyGraph == [nodes |-> <<>>, attrs |-> <<>>, edges |-> {}, drift_dist |-> <<>>]

NodeSet(g) == Range(g.nodes)

\* g.nodes[n]: the attributes of node n
Attr(g, n) == g.attrs[CHOOSE i \in 1..Len(g.nodes) : g.nodes[i] = n]

\* (x, y) of node n
Pos(g, n) == <<Attr(g, n).x, Attr(g, n).y>>

\* DiGraph.add_node(n, **a): a new node, or new attributes for a known one
AddNode(g, n, a) ==
    IF n \in NodeSet(g)
    THEN [g EXCEPT !.attrs = [i \in 1..Len(g.nodes) |->
                                IF g.nodes[i] = n THEN a ELSE g.attrs[i]]]
    ELSE [g EXCEPT !.nodes = Append(@, n), !.attrs = Append(@, a)]

(* ----------------------- nodes_from_segmentation ----------------------- *)
\* skimage.measure.regionprops(seg_frame): one region per non-zero label, in
\* increasing label order, with the centroid of its pixels
RegionProps(seg_frame) ==
    LET labs == {seg_frame[p] : p \in DOMAIN seg_frame} \ {0}
        pix(l) == {p \in DOMAIN seg_frame : seg_frame[p] = l}
        RECURSIVE Sum(_, _)
        Sum(P, k) == IF P = {} THEN 0
                     ELSE LET p == CHOOSE p \in P : TRUE IN p[k] + Sum(P \ {p}, k)
        srt == SortedSeq(labs)
    IN [i \in 1..Len(srt) |->
          [label |-> srt[i],
           centroid |-> << Sum(pix(srt[i]), 1) \div Cardinality(pix(srt[i])),
                           Sum(pix(srt[i]), 2) \div Cardinality(pix(srt[i])) >>]]

\* the attrs dictionary of a region of frame t
NodeAttrsNoScore(regionprop, probs, t) ==
    [t |-> t, x |-> regionprop.centroid[1], y |-> regionprop.centroid[2]]

NodeAttrs(regionprop, probs, t) ==
    LET x == regionprop.centroid[1]
        y == regionprop.centroid[2]
    IN [t |-> t, x |-> x, y |-> y, score |-> probs[t][<<x \div 2, y \div 2>>]]

\* assert node_id not in cand_graph.nodes
AssertOff(g, node_id) == TRUE

AssertNewNode(g, node_id) == node_id \notin NodeSet(g)

RECURSIVE AddRegions(_, _, _, _, _)
\* the inner loop over the regions of frame t, from region i on;
\* ok = FALSE once the assertion failed
AddRegions(st, props, probs, t, i) ==
    IF ~st.ok \/ i > Len(props) THEN st
    ELSE LET node_id == props[i].label
             a == NodeAttrs(props[i], probs, t)
         IN IF ~AssertNewNode(st.graph, node_id)
            THEN [st EXCEPT !.ok = FALSE]
            ELSE AddRegions([st EXCEPT !.graph = AddNode(@, node_id, a)],
                            props, probs, t, i + 1)

RECURSIVE NodesFromFrame(_, _, _, _)
\* the outer loop over the frames, from frame t on
NodesFromFrame(st, seg, probs, t) ==
    IF ~st.ok \/ t >= NumFrames THEN st
    ELSE NodesFromFrame(AddRegions(st, RegionProps(seg[t]), probs, t, 1),
                        seg, probs, t + 1)

\* nodes_from_segmentation(segmentation): [ok, graph]; ok = FALSE when the
\* assertion raised (then nothing is returned)
NodesFromSegmentationResult(seg, probs) ==
    NodesFromFrame([ok |-> TRUE, graph |-> EmptyGraph], seg, probs, 0)

(* ---------------------------- add_cand_edges --------------------------- *)
\* _compute_node_frame_dict: frame -> node ids of that frame, in node order
ComputeNodeFrameDict(g) ==
    LET ts == {g.attrs[i].t : i \in 1..Len(g.nodes)}
    IN [t \in ts |-> SelectSeq(g.nodes, LAMBDA n : Attr(g, n).t = t)]

\* squared Euclidean distance of two (x, y) positions
Dist2(p, q) == (p[1] - q[1]) * (p[1] - q[1]) + (p[2] - q[2]) * (p[2] - q[2])

\* create_kdtree: the positions of node_ids, in order
CreateKDTree(g, node_ids) ==
    [i \in 1..Len(node_ids) |-> Pos(g, node_ids[i])]

\* KDTree.query_ball_tree(other, r): for each point of the tree, the indices
\* of the points of other within distance r (inclusive)
QueryBallTreeAll(tree, other, r) ==
    [i \in 1..Len(tree) |-> 1..Len(other)]

QueryBallTree(tree, other, r) ==
    [i \in 1..Len(tree) |-> {j \in 1..Len(other) : Dist2(tree[i], other[j]) <= r * r}]

\* the edge of cand_graph.add_edge(prev_node_id, next_node_id)
CandEdgeReversed(prev_node_id, next_node_id) == <<next_node_id, prev_node_id>>

CandEdge(prev_node_id, next_node_id) == <<prev_node_id, next_node_id>>

RECURSIVE EdgeLoop(_, _, _, _, _, _, _)
\* the loop over frames[k..]: prev_ids / prev_tree are the loop-carried
\* prev_node_ids / prev_kdtree, which a skipped frame leaves as they are
EdgeLoop(g, nfd, frames, k, prev_ids, prev_tree, d) ==
    IF k > Len(frames) THEN g
    ELSE LET frame == frames[k] IN
         IF frame + 1 \notin DOMAIN nfd
         THEN EdgeLoop(g, nfd, frames, k + 1, prev_ids, prev_tree, d)
         ELSE LET next_ids == nfd[frame + 1]
                  next_tree == CreateKDTree(g, next_ids)
                  matched == QueryBallTree(prev_tree, next_tree, d)
                  added == UNION { { CandEdge(prev_ids[i], next_ids[j]) :
                                       j \in matched[i] } :
                                   i \in 1..Len(prev_ids) }
              IN EdgeLoop([g EXCEPT !.edges = @ \cup added], nfd, frames, k + 1,
                          next_ids, next_tree, d)

\* add_cand_edges(cand_graph, max_edge_distance) on a graph with nodes
AddCandEdgesResultPruned(g, d) ==
    LET nfd == ComputeNodeFrameDict(g)
        frames == SortedSeq(DOMAIN nfd)
        prev_ids == nfd[frames[1]]
        linked == EdgeLoop(g, nfd, frames, 1, prev_ids, CreateKDTree(g, prev_ids), d)
        keep == SelectSeq([i \in 1..Len(g.nodes) |-> i],
                          LAMBDA i : \E e \in linked.edges : g.nodes[i] \in {e[1], e[2]})
    IN [linked EXCEPT !.nodes = [k \in 1..Len(keep) |-> g.nodes[keep[k]]],
                      !.attrs = [k \in 1..Len(keep) |-> g.attrs[keep[k]]]]

AddCandEdgesResult(g, d) ==
    LET nfd == ComputeNodeFrameDict(g)
        frames == SortedSeq(DOMAIN nfd)
        prev_ids == nfd[frames[1]]
    IN EdgeLoop(g, nfd, frames, 1, prev_ids, CreateKDTree(g, prev_ids), d)

(* ------------------------- add_drift_dist_attr ------------------------- *)
RECURSIVE Bisect(_, _, _)
\* the largest r in lo..hi with r * r <= n
Bisect(n, lo, hi) ==
    IF lo = hi THEN lo
    ELSE LET mid == (lo + hi + 1) \div 2
         IN IF mid * mid <= n THEN Bisect(n, mid, hi) ELSE Bisect(n, lo, mid - 1)

\* np.linalg.norm of an integer vector, in tenths (rounded down)
Norm(v) == Bisect(100 * (v[1] * v[1] + v[2] * v[2]), 0,
                  10 * (v[1] * v[1] + v[2] * v[2]))

\* drift = np.array([-10, 0])
drift == <<-10, 0>>

\* add_drift_dist_attr(cand_graph, drift): drift_dist on every edge
AddDriftDistAttrResult(g, dr) ==
    [g EXCEPT !.drift_dist =
        [e \in g.edges |->
            LET source_pos == Pos(g, e[1])
                target_pos == Pos(g, e[2])
                expected_target_pos == <<source_pos[1] + dr[1], source_pos[2] + dr[2]>>
            IN Norm(<<expected_target_pos[1] - target_pos[1],
                      expected_target_pos[2] - target_pos[2]>>)]]

(* ------------------------------ the ILP -------------------------------- *)
\* MaxParents(1), MaxChildren(2)
max_parents == 1
max_children == 2

\* a selection: the nodes and the edges whose indicator variable is 1
Selections(g) ==
    { [nodes |-> N, edges |-> E] : N \in SUBSET NodeSet(g), E \in SUBSET g.edges }

\* selected incoming / outgoing edges of node n
InSel(sel, n) == {e \in sel.edges : e[2] = n}
OutSel(sel, n) == {e \in sel.edges : e[1] = n}

\* the NodeAppear variable: selected, and no selected incoming edge
AppearNodes(sel) == {n \in sel.nodes : InSel(sel, n) = {}}

\* the NodeSplit variable: selected, and more than one selected outgoing edge
SplitNodes(sel) == {n \in sel.nodes : Cardinality(OutSel(sel, n)) > 1}

\* the constraint every motile.Solver carries: a selected edge has both its
\* incident nodes selected
EdgeImpliesEndpointsOff(g, sel) == TRUE

EdgeImpliesEndpoints(g, sel) ==
    \A e \in sel.edges : e[1] \in sel.nodes /\ e[2] \in sel.nodes

\* motile.constraints.MaxParents(k)
MaxParentsOff(g, sel, k) == TRUE

MaxParents(g, sel, k) ==
    \A n \in NodeSet(g) : Cardinality(InSel(sel, n)) <= k

\* motile.constraints.MaxChildren(k)
MaxChildrenOff(g, sel, k) == TRUE

MaxChildren(g, sel, k) ==
    \A n \in NodeSet(g) : Cardinality(OutSel(sel, n)) <= k

(* ----------------------------- src/utils.py ---------------------------- *)
Max(S) == CHOOSE m \in S : \A n \in S : n <= m

\* solver.graph.get_frames(): the first frame that holds a node, and one past
\* the last frame that holds a node
GetFrames(g) ==
    LET ts == {g.attrs[i].t : i \in 1..Len(g.nodes)}
    IN <<Min(ts), Max(ts) + 1>>

\* solver.graph.prev_edges[node], solver.graph.next_edges[node]
PrevEdges(g, node) == {e \in g.edges : e[2] = node}
NextEdges(g, node) == {e \in g.edges : e[1] = node}

\* the value an assignment gives to an indicator variable: <<"EdgeSelected", e>>
\* or <<"NodeAppear", n>>
Indicator(sel, v) ==
    IF v[1] = "EdgeSelected"
    THEN (IF v[2] \in sel.edges THEN 1 ELSE 0)
    ELSE (IF v[2] \in AppearNodes(sel) THEN 1 ELSE 0)

\* an ilpy.Constraint holds under an assignment
Satisfies(sel, constraint) ==
    LET vs == DOMAIN constraint.coefficients
        RECURSIVE Lhs(_)
        Lhs(V) == IF V = {} THEN 0
                  ELSE LET v == CHOOSE v \in V : TRUE
                       IN constraint.coefficients[v] * Indicator(sel, v) + Lhs(V \ {v})
    IN IF constraint.relation = "Equal" THEN Lhs(vs) = constraint.value
       ELSE IF constraint.relation = "LessEqual" THEN Lhs(vs) <= constraint.value
       ELSE Lhs(vs) >= constraint.value

\* the constraint InOutSymmetry.instantiate builds for one node: coefficient 1
\* on every incoming and -1 on every outgoing edge indicator, equal to 0
InOutConstraintLessEqual(g, node) ==
    [coefficients |->
        [v \in {<<"EdgeSelected", e>> : e \in PrevEdges(g, node) \cup NextEdges(g, node)} |->
            IF v[2] \in NextEdges(g, node) THEN -1 ELSE 1],
     relation |-> "LessEqual",
     value |-> 0]

InOutConstraint(g, node) ==
    [coefficients |->
        [v \in {<<"EdgeSelected", e>> : e \in PrevEdges(g, node) \cup NextEdges(g, node)} |->
            IF v[2] \in NextEdges(g, node) THEN -1 ELSE 1],
     relation |-> "Equal",
     value |-> 0]

\* the frames InOutSymmetry leaves without a constraint, given get_frames()
ExcludedFramesEnd(start, end) == {start, end}

ExcludedFramesSecond(start, end) == {start, start + 1, end - 1}

ExcludedFrames(start, end) == {start, end - 1}

\* InOutSymmetry.instantiate(solver): the list of constraints, one for every
\* node, in node order, whose frame is not in (start, end - 1)
InOutSymmetryInstantiate(g) ==
    LET inner == SelectSeq(g.nodes,
                     LAMBDA node : Attr(g, node).t \notin
                                       ExcludedFrames(GetFrames(g)[1], GetFrames(g)[2]))
    IN [i \in 1..Len(inner) |-> InOutConstraint(g, inner[i])]

\* MinTrackLength.__init__(min_edges): the exception raised, and the object
\* constructed (none when it raises)
MinTrackLengthInitAtLeast(min_edges) ==
    IF min_edges < 1
    THEN [raised |-> "NotImplementedError", object |-> {}]
    ELSE [raised |-> "none", object |-> {[min_edges |-> min_edges]}]

MinTrackLengthInit(min_edges) ==
    IF min_edges # 1
    THEN [raised |-> "NotImplementedError", object |-> {}]
    ELSE [raised |-> "none", object |-> {[min_edges |-> min_edges]}]

\* the constraint MinTrackLength.instantiate yields for one node: coefficient
\* 1 on its appear indicator and -1 on every outgoing edge indicator, at
\* most 0
MinTrackConstraintNoAppear(g, node) ==
    [coefficients |->
        [v \in {<<"EdgeSelected", e>> : e \in NextEdges(g, node)} |-> -1],
     relation |-> "LessEqual",
     value |-> -1]

MinTrackConstraintReversed(g, node) ==
    [coefficients |->
        [v \in {<<"NodeAppear", node>>}
               \cup {<<"EdgeSelected", e>> : e \in NextEdges(g, node)} |->
            IF v[1] = "NodeAppear" THEN 1 ELSE -1],
     relation |-> "GreaterEqual",
     value |-> 0]

MinTrackConstraint(g, node) ==
    [coefficients |->
        [v \in {<<"NodeAppear", node>>}
               \cup {<<"EdgeSelected", e>> : e \in NextEdges(g, node)} |->
            IF v[1] = "NodeAppear" THEN 1 ELSE -1],
     relation |-> "LessEqual",
     value |-> 0]

\* MinTrackLength.instantiate(solver): one constraint per node, in node order
MinTrackLengthInstantiateSkipLeaves(g) ==
    LET inner == SelectSeq(g.nodes, LAMBDA node : NextEdges(g, node) # {})
    IN [i \in 1..Len(inner) |-> MinTrackConstraint(g, inner[i])]

MinTrackLengthInstantiate(g) ==
    [i \in 1..Len(g.nodes) |-> MinTrackConstraint(g, g.nodes[i])]

\* the selections that satisfy the constraints attached to the solver
Feasible(g, constraints) ==
    LET in_out == InOutSymmetryInstantiate(g)
        min_track == MinTrackLengthInstantiate(g)
    IN { sel \in Selections(g) :
           /\ EdgeImpliesEndpoints(g, sel)
           /\ "MaxParents" \in constraints => MaxParents(g, sel, max_parents)
           /\ "MaxChildren" \in constraints => MaxChildren(g, sel, max_children)
           /\ "InOutSymmetry" \in constraints =>
                  \A i \in 1..Len(in_out) : Satisfies(sel, in_out[i])
           /\ "MinTrackLength" \in constraints =>
                  \A i \in 1..Len(min_track) : Satisfies(sel, min_track[i]) }

\* the costs of solve_basic_optimization, adapt_basic_optimization and
\* solve_drift_optimization; constants in tenths
BasicCosts ==
    [node_weight |-> -1, node_constant |-> 0,
     edge_attribute |-> "distance", edge_weight |-> 1, edge_constant |-> -200,
     appear_constant |-> 20, split_constant |-> 10]

AdaptCosts ==
    [node_weight |-> -5, node_constant |-> 25,
     edge_attribute |-> "distance", edge_weight |-> 1, edge_constant |-> -200,
     appear_constant |-> 200, split_constant |-> 150]

DriftCosts ==
    [node_weight |-> -100, node_constant |-> 750,
     edge_attribute |-> "drift_dist", edge_weight |-> 1, edge_constant |-> -300,
     appear_constant |-> 400, split_constant |-> 450]

\* costs a caller of the solve template attaches: only an edge distance cost
\* of weight 1; weight 1 costs with an appear and a split cost; and a node
\* weight of -1 with an edge distance cost of weight 1 and constant -10
CustomCosts ==
    { [node_weight |-> 0, node_constant |-> 0,
       edge_attribute |-> "distance", edge_weight |-> 1, edge_constant |-> 0,
       appear_constant |-> 0, split_constant |-> 0],
      [node_weight |-> 1, node_constant |-> 0,
       edge_attribute |-> "distance", edge_weight |-> 1, edge_constant |-> 0,
       appear_constant |-> 20, split_constant |-> 10],
      [node_weight |-> -1, node_constant |-> 0,
       edge_attribute |-> "distance", edge_weight |-> 1, edge_constant |-> -100,
       appear_constant |-> 0, split_constant |-> 0] }

\* NodeSelection(weight, constant, attribute="score"): cost of selecting n
NodeCostNegated(g, c, n) == 0 - (c.node_weight * Attr(g, n).score + c.node_constant)

NodeCost(g, c, n) == c.node_weight * Attr(g, n).score + c.node_constant

\* EdgeDistance(position_attribute=("x", "y")) or EdgeSelection(attribute):
\* cost of selecting e
EdgeCostNoConstant(g, c, e) ==
    LET value == IF c.edge_attribute = "distance"
                 THEN Norm(<<Pos(g, e[1])[1] - Pos(g, e[2])[1],
                             Pos(g, e[1])[2] - Pos(g, e[2])[2]>>)
                 ELSE g.drift_dist[e]
    IN c.edge_weight * value

EdgeCost(g, c, e) ==
    LET value == IF c.edge_attribute = "distance"
                 THEN Norm(<<Pos(g, e[1])[1] - Pos(g, e[2])[1],
                             Pos(g, e[1])[2] - Pos(g, e[2])[2]>>)
                 ELSE g.drift_dist[e]
    IN c.edge_weight * value + c.edge_constant

RECURSIVE SumOver(_, _)
\* the sum of f over the set S
SumOver(f, S) ==
    IF S = {} THEN 0
    ELSE LET x == CHOOSE x \in S : TRUE IN f[x] + SumOver(f, S \ {x})

\* the objective of a selection, given the cost of every node and edge
Objective(c, ncost, ecost, sel) ==
    SumOver(ncost, sel.nodes) + SumOver(ecost, sel.edges)
    + c.appear_constant * Cardinality(AppearNodes(sel))
    + c.split_constant * Cardinality(SplitNodes(sel))

\* the selections of minimal objective
Optimal(g, c, constraints) ==
    LET ncost == [n \in NodeSet(g) |-> NodeCost(g, c, n)]
        ecost == [e \in g.edges |-> EdgeCost(g, c, e)]
        F == Feasible(g, constraints)
        obj == [sel \in F |-> Objective(c, ncost, ecost, sel)]
        best == Min({obj[sel] : sel \in F})
    IN { sel \in F : obj[sel] = best }

\* solver.solve(timeout=120): a selection of minimal objective, or at the time
\* limit the best feasible selection found so far
SolverResults(g, c, constraints, status) ==
    IF status = "optimal" THEN Optimal(g, c, constraints)
    ELSE Feasible(g, constraints)

\* graph_to_nx(solver.get_selected_subgraph())
SelectedSubgraphReversed(g, sel) ==
    LET keep == SelectSeq([i \in 1..Len(g.nodes) |-> i],
                          LAMBDA i : g.nodes[i] \in sel.nodes)
    IN [nodes |-> [k \in 1..Len(keep) |-> g.nodes[keep[k]]],
        attrs |-> [k \in 1..Len(keep) |-> g.attrs[keep[k]]],
        edges |-> {<<e[2], e[1]>> : e \in sel.edges},
        drift_dist |-> [e \in sel.edges \cap DOMAIN g.drift_dist |-> g.drift_dist[e]]]

SelectedSubgraph(g, sel) ==
    LET keep == SelectSeq([i \in 1..Len(g.nodes) |-> i],
                          LAMBDA i : g.nodes[i] \in sel.nodes)
    IN [nodes |-> [k \in 1..Len(keep) |-> g.nodes[keep[k]]],
        attrs |-> [k \in 1..Len(keep) |-> g.attrs[keep[k]]],
        edges |-> sel.edges,
        drift_dist |-> [e \in sel.edges \cap DOMAIN g.drift_dist |-> g.drift_dist[e]]]

(* ------------------------- relabel_segmentation ------------------------ *)
\* graph.out_degree() of node n
OutDegree(g, n) == Cardinality({e \in g.edges : e[1] = n})

\* assign_tracklet_ids: parents = the nodes with out-degree >= 2
ParentsOver(g) == {n \in NodeSet(g) : OutDegree(g, n) > 2}

ParentsAny(g) == {n \in NodeSet(g) : OutDegree(g, n) >= 1}

Parents(g) == {n \in NodeSet(g) : OutDegree(g, n) >= 2}

\* assign_tracklet_ids: graph_copy, the graph without the edges from a parent
\* to its daughters
RemoveDaughterEdgesAndIncoming(g) ==
    [g EXCEPT !.edges = {e \in @ : e[1] \notin Parents(g) /\ e[2] \notin Parents(g)}]

RemoveDaughterEdges(g) ==
    [g EXCEPT !.edges = {e \in @ : e[1] \notin Parents(g)}]

RECURSIVE PlainBFS(_, _, _)
\* networkx _plain_bfs: the nodes reached from the frontier over edges taken
\* in either direction
PlainBFS(g, seen, frontier) ==
    IF frontier = {} THEN seen
    ELSE LET nextlevel == {n \in NodeSet(g) \ seen :
                             \E m \in frontier : <<m, n>> \in g.edges \/ <<n, m>> \in g.edges}
         IN PlainBFS(g, seen \cup nextlevel, nextlevel)

RECURSIVE ComponentLoop(_, _, _)
ComponentLoop(g, i, seen) ==
    IF i > Len(g.nodes) THEN <<>>
    ELSE IF g.nodes[i] \in seen THEN ComponentLoop(g, i + 1, seen)
    ELSE LET c == PlainBFS(g, {g.nodes[i]}, {g.nodes[i]})
         IN <<c>> \o ComponentLoop(g, i + 1, seen \cup c)

\* nx.weakly_connected_components(g): the components, in the order of their
\* first node
WeaklyConnectedComponents(g) == ComponentLoop(g, 1, {})

\* the id assign_tracklet_ids gives to the first component (0 or 1, by the
\* version of motile_toolbox installed)
FirstTrackletIds == {0, 1}

\* a node's attributes with tracklet_id set
WithTrackletId(a, id) ==
    [t |-> a.t, x |-> a.x, y |-> a.y, score |-> a.score, tracklet_id |-> id]

\* assign_tracklet_ids(graph): sets tracklet_id on every node, one id per
\* weakly connected component of graph_copy, counting up from first_id
AssignTrackletIds(g, first_id) ==
    LET graph_copy == RemoveDaughterEdges(g)
        tracklets == WeaklyConnectedComponents(graph_copy)
        track_id(n) == first_id + (CHOOSE k \in 1..Len(tracklets) : n \in tracklets[k]) - 1
    IN [g EXCEPT !.attrs = [i \in 1..Len(g.nodes) |->
                               WithTrackletId(g.attrs[i], track_id(g.nodes[i]))]]

\* the nodes of the solution graph whose attribute dictionary is the very
\* dictionary of the candidate graph: none, graph_to_nx (add_nodes_from)
\* copies the attributes of every node into a dictionary of its own
SharedAttrDictsAll(g, sol) == NodeSet(sol)

SharedAttrDicts(g, sol) == {}

\* the candidate graph g after assign_tracklet_ids wrote on the solution
\* graph, labelled being the solution graph with its tracklet ids
CandAfterAssign(g, sol, labelled) ==
    [g EXCEPT !.attrs = [i \in 1..Len(g.nodes) |->
        IF g.nodes[i] \in SharedAttrDicts(g, sol)
        THEN Attr(labelled, g.nodes[i]) ELSE g.attrs[i]]]

\* np.zeros_like(segmentation)
ZerosLike(seg) == [t \in DOMAIN seg |-> [p \in DOMAIN seg[t] |-> 0]]

\* one round of the loop of relabel_segmentation: the pixels of frame t of the
\* node that hold the node id receive the node's tracklet_id
RelabelNodeKeepLabel(g, seg, masks, node) ==
    LET time_frame == Attr(g, node).t
        previous_seg_id == node
    IN [masks EXCEPT ![time_frame] =
            [p \in DOMAIN seg[time_frame] |->
                IF seg[time_frame][p] = previous_seg_id THEN previous_seg_id ELSE @[p]]]

RelabelNode(g, seg, masks, node) ==
    LET time_frame == Attr(g, node).t
        previous_seg_id == node
        track_id == Attr(g, node).tracklet_id
    IN [masks EXCEPT ![time_frame] =
            [p \in DOMAIN seg[time_frame] |->
                IF seg[time_frame][p] = previous_seg_id THEN track_id ELSE @[p]]]

RECURSIVE RelabelLoop(_, _, _, _)
RelabelLoop(g, seg, masks, i) ==
    IF i > Len(g.nodes) THEN masks
    ELSE RelabelLoop(g, seg, RelabelNode(g, seg, masks, g.nodes[i]), i + 1)

\* the array relabel_segmentation returns, g being the solution graph after
\* assign_tracklet_ids
TrackedMasks(g, seg) == RelabelLoop(g, seg, ZerosLike(seg), 1)

(* --------------------------- ground truth ------------------------------ *)
\* the cells of the label arrays annotated with ground truth: one region in
\* frame 0 and two neighbouring ones in frame 1
GtCells == {<<0, <<0, 0>>>>, <<1, <<0, 0>>>>, <<1, <<0, 1>>>>}

\* the (time, x, y) values of the CSV rows, x and y in tenths: 0.5 and 1.5
GtPoints == {<<0, 5, 5>>, <<1, 5, 5>>, <<1, 5, 15>>}

\* the rows of the CSV as DictReader yields them
GtRows ==
    [id : 1..MaxRows, time : {p[1] : p \in GtPoints}, x : {p[2] : p \in GtPoints},
     y : {p[3] : p \in GtPoints}, parent_id : {-1} \cup (1..MaxRows)]

RECURSIVE SeqsUpTo(_, _)
\* the sequences of at most n elements of S
SeqsUpTo(S, n) ==
    IF n = 0 THEN {<<>>}
    ELSE LET shorter == SeqsUpTo(S, n - 1)
         IN shorter \cup {Append(q, r) : q \in {q \in shorter : Len(q) = n - 1}, r \in S}

GtCsvs ==
    SeqsUpTo({r \in GtRows : <<r.time, r.x, r.y>> \in GtPoints}, MaxRows)

\* nx.DiGraph() of the ground truth: node ids in insertion order, and for each
\* node the keys of its attribute dict and their values
EmptyGtGraph == [nodes |-> <<>>, attrs |-> <<>>, edges |-> {}]

\* the attribute dict of a node created without attributes
NoAttrs == [keys |-> {}, t |-> 0, x |-> 0, y |-> 0]

\* G.add_node(n, **a): a new node is appended, an existing one has its dict
\* updated
GtAddNode(g, n, a) ==
    IF n \in Range(g.nodes)
    THEN [g EXCEPT !.attrs =
            [i \in 1..Len(g.nodes) |->
                IF g.nodes[i] # n THEN g.attrs[i]
                ELSE [keys |-> g.attrs[i].keys \cup a.keys,
                      t |-> IF "t" \in a.keys THEN a.t ELSE g.attrs[i].t,
                      x |-> IF "x" \in a.keys THEN a.x ELSE g.attrs[i].x,
                      y |-> IF "y" \in a.keys THEN a.y ELSE g.attrs[i].y]]]
    ELSE [g EXCEPT !.nodes = Append(g.nodes, n), !.attrs = Append(g.attrs, a)]

\* G.add_edge(u, v): an endpoint that is not a node yet becomes one, with an
\* empty attribute dict
GtAddEdge(g, u, v) ==
    LET g1 == IF u \in Range(g.nodes) THEN g ELSE GtAddNode(g, u, NoAttrs)
        g2 == IF v \in Range(g1.nodes) THEN g1 ELSE GtAddNode(g1, v, NoAttrs)
    IN [g2 EXCEPT !.edges = g2.edges \cup {<<u, v>>}]

\* one iteration of the loop over the rows
ReadRow(g, row) ==
    LET attrs == [keys |-> {"x", "y", "t"}, t |-> row.time, x |-> row.x, y |-> row.y]
        g1 == GtAddNode(g, row.id, attrs)
    IN IF row.parent_id # -1 THEN GtAddEdge(g1, row.parent_id, row.id) ELSE g1

RECURSIVE ReadRows(_, _, _)
ReadRows(g, csv, i) ==
    IF i > Len(csv) THEN g ELSE ReadRows(ReadRow(g, csv[i]), csv, i + 1)

\* read_gt_tracks() on a CSV with the rows csv
ReadGtTracksResult(csv) == ReadRows(EmptyGtGraph, csv, 1)

\* int(v) of a non-negative float given in tenths
IntOf(tenths) == tenths \div 10

\* gt_track.nodes[gt_node]
GtAttr(gt, n) == gt.attrs[CHOOSE i \in 1..Len(gt.nodes) : gt.nodes[i] = n]

\* the lookup data["t"], data["x"], data["y"] raises KeyError
GtKeyError(gt, n) == ~({"t", "x", "y"} \subseteq GtAttr(gt, n).keys)

\* get_cand_id(gt_node, gt_track, cand_segmentation)
GetCandId(gt_node, gt, seg) ==
    LET data == GtAttr(gt, gt_node)
    IN seg[data.t][<<IntOf(data.x), IntOf(data.y)>>]

validation_times == <<0, 3>>

\* cand_graph.subgraph(validation_nodes).copy()
ValidationGraph(g) ==
    LET keep == {i \in 1..Len(g.nodes) :
                    g.attrs[i].t >= validation_times[1] /\ g.attrs[i].t < validation_times[2]}
        kept == SortedSeq(keep)
        ids == {g.nodes[i] : i \in keep}
    IN [nodes |-> [k \in 1..Len(kept) |-> g.nodes[kept[k]]],
        attrs |-> [k \in 1..Len(kept) |-> g.attrs[kept[k]]],
        edges |-> {e \in g.edges : e[1] \in ids /\ e[2] \in ids}]

\* the "gt" attribute of the nodes and of the edges of the annotated graph:
\* none is set
NoAnnotations == [nodes |-> [n \in {} |-> FALSE], edges |-> [e \in {} |-> FALSE]]

\* d[k] = v
Put(d, k, v) == [j \in DOMAIN d \cup {k} |-> IF j = k THEN v ELSE d[j]]

RECURSIVE PutAll(_, _, _)
\* d[k] = val[k] for the keys k of ks
PutAll(d, ks, val) ==
    IF ks = {} THEN d
    ELSE LET k == CHOOSE k \in ks : TRUE
         IN PutAll(Put(d, k, val[k]), ks \ {k}, val)

\* the body of the loop over gt_tracks.nodes()
VisitGtNode(ann, gt, g, seg, gt_node) ==
    IF GtKeyError(gt, gt_node) THEN [raised |-> "KeyError", ann |-> ann]
    ELSE LET cand_id == GetCandId(gt_node, gt, seg)
         IN IF cand_id = 0 \/ cand_id \notin Range(g.nodes)
            THEN [raised |-> "none", ann |-> ann]
            ELSE LET marked == [ann EXCEPT !.nodes = Put(ann.nodes, cand_id, TRUE)]
                     gt_succs == {e[2] : e \in {d \in gt.edges : d[1] = gt_node}}
                 IN IF \E gt_succ \in gt_succs : GtKeyError(gt, gt_succ)
                    THEN [raised |-> "KeyError", ann |-> marked]
                    ELSE LET gt_succ_matches ==
                                 {GetCandId(gt_succ, gt, seg) : gt_succ \in gt_succs}
                             cand_succs == {d \in g.edges : d[1] = cand_id}
                         IN [raised |-> "none",
                             ann |-> [marked EXCEPT !.edges =
                                 PutAll(marked.edges, cand_succs,
                                        [d \in cand_succs |-> d[2] \in gt_succ_matches])]]

RECURSIVE GtNodeLoop(_, _, _, _, _)
GtNodeLoop(ann, gt, g, seg, i) ==
    IF i > Len(gt.nodes) THEN [raised |-> "none", ann |-> ann]
    ELSE LET r == VisitGtNode(ann, gt, g, seg, gt.nodes[i])
         IN IF r.raised # "none" THEN r ELSE GtNodeLoop(r.ann, gt, g, seg, i + 1)

\* add_gt_annotations(gt_tracks, cand_graph, segmentation) on a graph without
\* annotations
AddGtAnnotationsResult(gt, g, seg) ==
    LET r == GtNodeLoop(NoAnnotations, gt, g, seg, 1)
        unmatched == Range(g.nodes) \ DOMAIN r.ann.nodes
    IN IF r.raised # "none" THEN r
       ELSE [raised |-> "none",
             ann |-> [r.ann EXCEPT !.nodes =
                        PutAll(r.ann.nodes, unmatched, [n \in unmatched |-> FALSE])]]

(* ------------------------------- state --------------------------------- *)
VARIABLES
    segmentation,       \* the label array, (t, x, y) -> label
    probabilities,      \* the half-resolution score map
    max_edge_distance,  \* argument of add_cand_edges
    cand_graph,         \* the candidate graph
    pc,                 \* "start", "nodes", "edges", "drift", or the exception raised
    costs,              \* the costs attached to the solver (NoCosts before a solve)
    solver_status,      \* "none", "optimal" or "time_limit": how solve() ended
    solution_graph,     \* the graph the solve function returned
    solver_constraints, \* the constraints attached to the solver
    min_track_length,   \* the call MinTrackLength(min_edges) and what it gave
    tracked_masks,      \* the array relabel_segmentation returned (<<>> before)
    gt_csv,             \* the rows of the ground-truth CSV
    gt_tracks,          \* the graph read_gt_tracks returned
    cand_gt,            \* the "gt" attributes of the validation graph
    gt_pc               \* "start", "read", "annotated", or the exception raised

vars == <<segmentation, probabilities, max_edge_distance, cand_graph, pc,
          costs, solver_status, solution_graph, solver_constraints,
          min_track_length, tracked_masks, gt_csv, gt_tracks, cand_gt, gt_pc>>

inputs == <<segmentation, probabilities, max_edge_distance>>
solver == <<costs, solver_status, solution_graph>>
utils == <<solver_constraints, min_track_length>>
ground_truth == <<gt_csv, gt_tracks, cand_gt, gt_pc>>

\* a solver without any cost attached
NoCosts ==
    [node_weight |-> 0, node_constant |-> 0,
     edge_attribute |-> "distance", edge_weight |-> 0, edge_constant |-> 0,
     appear_constant |-> 0, split_constant |-> 0]

\* MinTrackLength not called yet
NoMinTrackLength == [args |-> <<>>, raised |-> "none", object |-> {}]

\* read_gt_tracks not called yet, on an empty CSV
NoGroundTruth ==
    /\ gt_csv = <<>>
    /\ gt_tracks = EmptyGtGraph
    /\ cand_gt = NoAnnotations
    /\ gt_pc = "start"

NotSolved ==
    /\ costs = NoCosts
    /\ solver_status = "none"
    /\ solution_graph = EmptyGraph
    /\ solver_constraints = {}
    /\ min_track_length = NoMinTrackLength
    /\ tracked_masks = <<>>

Init ==
    /\ \E S \in CellSets :
           \E ls \in Labelings(CellSeq(S), Cardinality(S)) :
               segmentation = SegOf(CellSeq(S), ls)
    /\ probabilities \in ProbMaps
    /\ max_edge_distance \in 0..MaxDist
    /\ cand_graph = EmptyGraph
    /\ pc = "start"
    /\ NotSolved
    /\ NoGroundTruth

\* the label arrays handed to the solve functions: at most MaxSolveDets
\* single-pixel regions with pairwise distinct labels in three frames
InitSolve ==
    /\ \E S \in SolveCellSets :
           segmentation = SegOf(CellSeq(S), [i \in 1..Cardinality(S) |-> i])
    /\ probabilities \in ProbMaps
    /\ max_edge_distance \in 0..MaxDist
    /\ cand_graph = EmptyGraph
    /\ pc = "start"
    /\ NotSolved
    /\ NoGroundTruth

\* the label arrays of the tracking runs: those of InitSolve, and the line
\* scenes
InitTrack ==
    \/ InitSolve
    \/ /\ \E xs \in [0..2 -> 0..2] : segmentation = LineSeg(xs)
       /\ probabilities = LineProbs
       /\ max_edge_distance \in LineDistances
       /\ cand_graph = EmptyGraph
       /\ pc = "start"
       /\ NotSolved
       /\ NoGroundTruth

\* the label arrays and the CSVs of the ground-truth annotation
InitGt ==
    /\ \E S \in SUBSET GtCells :
           segmentation = SegOf(CellSeq(S), [i \in 1..Cardinality(S) |-> i])
    /\ probabilities = UniformProbs
    /\ max_edge_distance = MaxDist
    /\ cand_graph = EmptyGraph
    /\ pc = "start"
    /\ NotSolved
    /\ gt_csv \in GtCsvs
    /\ gt_tracks = EmptyGtGraph
    /\ cand_gt = NoAnnotations
    /\ gt_pc = "start"

\* cand_graph = nodes_from_segmentation(segmentation)
NodesFromSegmentation ==
    /\ pc = "start"
    /\ LET r == NodesFromSegmentationResult(segmentation, probabilities)
       IN IF r.ok
          THEN /\ cand_graph' = r.graph
               /\ pc' = "nodes"
          ELSE /\ cand_graph' = cand_graph
               /\ pc' = "AssertionError"
    /\ UNCHANGED <<inputs, ground_truth, solver, utils, tracked_masks>>

\* add_cand_edges(cand_graph, max_edge_distance)
AddCandEdgesNoRaise ==
    /\ pc = "nodes"
    /\ cand_graph' = IF Len(cand_graph.nodes) = 0 THEN cand_graph
                     ELSE AddCandEdgesResult(cand_graph, max_edge_distance)
    /\ pc' = "edges"
    /\ UNCHANGED <<inputs, ground_truth, solver, utils, tracked_masks>>

AddCandEdges ==
    /\ pc = "nodes"
    /\ IF Len(cand_graph.nodes) = 0
       THEN /\ cand_graph' = cand_graph
            /\ pc' = "IndexError"
       ELSE /\ cand_graph' = AddCandEdgesResult(cand_graph, max_edge_distance)
            /\ pc' = "edges"
    /\ UNCHANGED <<inputs, ground_truth, solver, utils, tracked_masks>>

\* add_drift_dist_attr(cand_graph, drift)
AddDriftDistAttr ==
    /\ pc = "edges"
    /\ solver_status = "none"
    /\ cand_graph' = AddDriftDistAttrResult(cand_graph, drift)
    /\ pc' = "drift"
    /\ UNCHANGED <<inputs, ground_truth, solver, utils, tracked_masks>>

\* the body shared by the solve functions: a motile.Solver on cand_graph with
\* the costs c and the constraints cs, solve(timeout=120), and the selected
\* subgraph as a networkx graph
Solve(c, cs) ==
    /\ pc \in {"edges", "drift"}
    /\ solver_status = "none"
    /\ \E status \in {"optimal", "time_limit"} :
           \E sel \in SolverResults(cand_graph, c, cs, status) :
               /\ solver_status' = status
               /\ solution_graph' = SelectedSubgraph(cand_graph, sel)
    /\ costs' = c
    /\ solver_constraints' = cs
    /\ UNCHANGED <<inputs, ground_truth, cand_graph, pc, min_track_length, tracked_masks>>

\* solution_graph = solve_basic_optimization(cand_graph)
SolveBasicOptimization == Solve(BasicCosts, {"MaxParents", "MaxChildren"})

\* solution_graph = adapt_basic_optimization(cand_graph)
AdaptBasicOptimization == Solve(AdaptCosts, {"MaxParents", "MaxChildren"})

\* solution_graph = solve_drift_optimization(cand_graph); the drift_dist cost
\* raises on an edge that lacks the attribute
SolveDriftOptimization ==
    IF pc = "edges" /\ cand_graph.edges # {}
    THEN /\ solver_status = "none"
         /\ pc' = "KeyError"
         /\ UNCHANGED <<inputs, ground_truth, cand_graph, solver, utils, tracked_masks>>
    ELSE Solve(DriftCosts, {"MaxParents", "MaxChildren"})

\* the solve function as a caller completes it: costs of its choice, and the
\* MaxParents(1) and MaxChildren(2) constraints
SolveCustomOptimization ==
    \E c \in CustomCosts : Solve(c, {"MaxParents", "MaxChildren"})

\* min_track = MinTrackLength(min_edges), as a solve function would call it
\* before attaching the constraint; the exception ends the run
NewMinTrackLength ==
    /\ pc = "edges"
    /\ solver_status = "none"
    /\ min_track_length.args = <<>>
    /\ \E min_edges \in 0..MaxMinEdges :
           LET made == MinTrackLengthInit(min_edges)
           IN /\ min_track_length' = [args |-> <<min_edges>>,
                                      raised |-> made.raised,
                                      object |-> made.object]
              /\ pc' = IF made.raised = "none" THEN pc ELSE made.raised
    /\ UNCHANGED <<inputs, ground_truth, cand_graph, solver, solver_constraints, tracked_masks>>

\* the constraints of src/utils.py a solve function can attach
UtilsConstraints == {"InOutSymmetry", "MinTrackLength"}

\* a solve function that attaches, to MaxParents(1) and MaxChildren(2),
\* InOutSymmetry() or the MinTrackLength object constructed before, or both
SolveUtilsOptimization ==
    \E c \in CustomCosts : \E cs \in (SUBSET UtilsConstraints) \ {{}} :
        /\ ("MinTrackLength" \in cs) <=> (min_track_length.object # {})
        /\ Solve(c, {"MaxParents", "MaxChildren"} \cup cs)

\* solution_seg = relabel_segmentation(solution_graph, segmentation); the
\* tracklet ids are written to the nodes of solution_graph
RelabelSegmentation ==
    /\ solver_status # "none"
    /\ tracked_masks = <<>>
    /\ \E first_id \in FirstTrackletIds :
           LET labelled == AssignTrackletIds(solution_graph, first_id)
           IN /\ solution_graph' = labelled
              /\ cand_graph' = CandAfterAssign(cand_graph, solution_graph, labelled)
              /\ tracked_masks' = TrackedMasks(labelled, segmentation)
    /\ UNCHANGED <<inputs, ground_truth, pc, costs, solver_status, utils>>

\* run_pipeline(cand_graph, run_name, results_df): adapt_basic_optimization
\* followed by relabel_segmentation
RunPipeline ==
    /\ pc \in {"edges", "drift"}
    /\ solver_status = "none"
    /\ \E status \in {"optimal", "time_limit"} :
           \E sel \in SolverResults(cand_graph, AdaptCosts, {"MaxParents", "MaxChildren"}, status) :
               \E first_id \in FirstTrackletIds :
                   LET sol == SelectedSubgraph(cand_graph, sel)
                       labelled == AssignTrackletIds(sol, first_id)
                   IN /\ solver_status' = status
                      /\ solution_graph' = labelled
                      /\ cand_graph' = CandAfterAssign(cand_graph, sol, labelled)
                      /\ tracked_masks' = TrackedMasks(labelled, segmentation)
    /\ costs' = AdaptCosts
    /\ solver_constraints' = {"MaxParents", "MaxChildren"}
    /\ UNCHANGED <<inputs, ground_truth, pc, min_track_length>>

\* a further call add_cand_edges(cand_graph, d) on the graph that already
\* has its candidate edges
AddCandEdgesAgain ==
    /\ pc = "edges"
    /\ solver_status = "none"
    /\ \E d \in 0..MaxDist :
           /\ max_edge_distance' = d
           /\ cand_graph' = AddCandEdgesResult(cand_graph, d)
    /\ pc' = "edges_again"
    /\ UNCHANGED <<segmentation, probabilities, ground_truth, solver, utils, tracked_masks>>

\* a solve function that attaches MaxParents(1) and InOutSymmetry(), and the
\* MinTrackLength object when one was constructed, but no MaxChildren
SolveFlowOptimization ==
    \E c \in CustomCosts :
        Solve(c, {"MaxParents", "InOutSymmetry"}
                     \cup (IF min_track_length.object # {} THEN {"MinTrackLength"} ELSE {}))

\* gt_tracks = read_gt_tracks()
ReadGtTracks ==
    /\ pc = "start"
    /\ gt_pc = "start"
    /\ gt_tracks' = ReadGtTracksResult(gt_csv)
    /\ gt_pc' = "read"
    /\ UNCHANGED <<inputs, cand_graph, pc, solver, utils, tracked_masks, gt_csv, cand_gt>>

\* validation_graph = cand_graph.subgraph(validation_nodes).copy()
\* add_gt_annotations(gt_tracks, validation_graph, segmentation)
AddGtAnnotations ==
    /\ pc = "edges"
    /\ gt_pc = "read"
    /\ LET r == AddGtAnnotationsResult(gt_tracks, ValidationGraph(cand_graph), segmentation)
       IN /\ cand_gt' = r.ann
          /\ gt_pc' = IF r.raised = "none" THEN "annotated" ELSE r.raised
    /\ UNCHANGED <<inputs, cand_graph, pc, solver, utils, tracked_masks, gt_csv, gt_tracks>>

Next ==
    \/ NodesFromSegmentation
    \/ AddCandEdges

Spec == Init /\ [][Next]_vars

NextSolve ==
    \/ NodesFromSegmentation
    \/ AddCandEdges
    \/ AddDriftDistAttr
    \/ SolveBasicOptimization
    \/ AdaptBasicOptimization
    \/ SolveDriftOptimization
    \/ SolveCustomOptimization

SpecSolve == InitSolve /\ [][NextSolve]_vars

NextRepeat ==
    \/ NodesFromSegmentation
    \/ AddCandEdges
    \/ AddCandEdgesAgain

SpecRepeat == Init /\ [][NextRepeat]_vars

NextUtils ==
    \/ NodesFromSegmentation
    \/ AddCandEdges
    \/ NewMinTrackLength
    \/ SolveUtilsOptimization

SpecUtils == InitSolve /\ [][NextUtils]_vars

NextFlow ==
    \/ NodesFromSegmentation
    \/ AddCandEdges
    \/ NewMinTrackLength
    \/ SolveFlowOptimization

SpecFlow == InitSolve /\ [][NextFlow]_vars

NextGt ==
    \/ ReadGtTracks
    \/ NodesFromSegmentation
    \/ AddCandEdges
    \/ AddGtAnnotations

SpecGt == InitGt /\ [][NextGt]_vars

NextTrack ==
    \/ NodesFromSegmentation
    \/ AddCandEdges
    \/ SolveBasicOptimization
    \/ SolveCustomOptimization
    \/ RelabelSegmentation

SpecTrack == InitTrack /\ [][NextTrack]_vars

NextPipeline ==
    \/ NodesFromSegmentation
    \/ AddCandEdges
    \/ AddDriftDistAttr
    \/ AdaptBasicOptimization
    \/ SolveDriftOptimization
    \/ RelabelSegmentation
    \/ RunPipeline

SpecPipeline == InitSolve /\ [][NextPipeline]_vars

(* ======================= candidate graph claims ======================== *)
\* frame of node n of the candidate graph
T(n) == Attr(cand_graph, n).t

\* the frames that hold at least one node of the candidate graph
OccupiedFrames == {T(n) : n \in NodeSet(cand_graph)}

\* a frame between the first and the last occupied frame has no detection
HasGap == \E t \in Frames : /\ t \notin OccupiedFrames
                            /\ \E a, b \in OccupiedFrames : a < t /\ t < b

\* u and v are at most max_edge_distance apart
Close(u, v) ==
    Dist2(Pos(cand_graph, u), Pos(cand_graph, v)) <= max_edge_distance * max_edge_distance

\* the (frame, label) detections of a label array
Detections(seg) ==
    {<<t, seg[t][p]>> : t \in Frames, p \in Pixels} \ {<<t, 0>> : t \in Frames}

\* some label occurs in two frames
DuplicateLabel(seg) ==
    \E d1, d2 \in Detections(seg) : d1[1] # d2[1] /\ d1[2] = d2[2]

\* C1: after add_cand_edges every edge (u, v) satisfies t(v) = t(u) + 1, for
\* every set of occupied frames, gaps included.
C1_EdgesJoinAdjacentFrames ==
    pc = "edges" => \A e \in cand_graph.edges : T(e[2]) = T(e[1]) + 1

\* C2: after add_cand_edges every pair u, v with t(v) = t(u) + 1 at distance at
\* most max_edge_distance is joined by the edge (u, v), gaps or not.
C2_ClosePairsAreEdges ==
    pc = "edges" =>
        \A u, v \in NodeSet(cand_graph) :
            (T(v) = T(u) + 1 /\ Close(u, v)) => <<u, v>> \in cand_graph.edges

\* C3: add_cand_edges never creates an edge whose endpoints are farther apart
\* than max_edge_distance.
C3_NoEdgeLongerThanMaxDistance ==
    pc = "edges" => \A e \in cand_graph.edges : Close(e[1], e[2])

\* C3 witness: edges were added while a pair in adjacent frames, too far apart,
\* stayed unlinked.
C3_Witness ==
    /\ pc = "edges"
    /\ cand_graph.edges # {}
    /\ \E u, v \in NodeSet(cand_graph) :
           T(v) = T(u) + 1 /\ ~Close(u, v) /\ <<u, v>> \notin cand_graph.edges

\* C4: the graph of nodes_from_segmentation followed by add_cand_edges has no
\* self-loop and every edge leads to a strictly later frame (hence no cycle),
\* gaps included.
C4_EdgesIncreaseFrame ==
    pc = "edges" =>
        \A e \in cand_graph.edges :
            /\ e[1] # e[2]
            /\ e[1] \in NodeSet(cand_graph) /\ e[2] \in NodeSet(cand_graph)
            /\ T(e[1]) < T(e[2])

\* C4 witness: a graph over frames with a gap that received an edge.
C4_Witness ==
    pc = "edges" /\ HasGap /\ cand_graph.edges # {}

\* C5: with at least one node add_cand_edges does not raise, and no edge
\* leaves a node of a frame t whose frame t + 1 has no detection.
C5_FrameBeforeGapSkipped ==
    /\ pc = "IndexError" => Len(cand_graph.nodes) = 0
    /\ pc = "edges" =>
           \A e \in cand_graph.edges : T(e[1]) + 1 \in OccupiedFrames

\* C6: nodes_from_segmentation raises whenever a label occurs in two frames,
\* and the node ids of every graph it returns are pairwise distinct, one node
\* per detection.
C6_DuplicateLabelAborts ==
    pc # "start" =>
        /\ DuplicateLabel(segmentation) =>
               pc = "AssertionError" /\ cand_graph = EmptyGraph
        /\ pc # "AssertionError" =>
               /\ \A i, j \in 1..Len(cand_graph.nodes) :
                      i # j => cand_graph.nodes[i] # cand_graph.nodes[j]
               /\ Len(cand_graph.nodes) = Cardinality(Detections(segmentation))

\* C6 witness: the build was aborted on a label array with three detections.
C6_Witness ==
    pc = "AssertionError" /\ Cardinality(Detections(segmentation)) = MaxDets

\* C7: the graph nodes_from_segmentation returns has one node per (frame,
\* label) detection, with the label as id and the frame as t, every node has
\* exactly the attributes t, x, y, score, and there is no edge.
C7_OneNodePerDetection ==
    pc = "nodes" =>
        /\ Len(cand_graph.nodes) = Cardinality(Detections(segmentation))
        /\ {<<T(n), n>> : n \in NodeSet(cand_graph)} = Detections(segmentation)
        /\ \A n \in NodeSet(cand_graph) :
               /\ DOMAIN Attr(cand_graph, n) = {"t", "x", "y", "score"}
               /\ segmentation[T(n)][Pos(cand_graph, n)] = n
               /\ Attr(cand_graph, n).score \in ScoreVals
        /\ cand_graph.edges = {}

\* C7 witness: a returned graph with two nodes in one frame and one in another.
C7_Witness ==
    /\ pc = "nodes"
    /\ \E u, v, w \in NodeSet(cand_graph) : u # v /\ T(u) = T(v) /\ T(w) # T(u)

(* ============================ solver claims ============================ *)
\* a solve function has returned
Solved == solver_status # "none"

\* the selection that the returned graph holds
Returned == [nodes |-> NodeSet(solution_graph), edges |-> solution_graph.edges]

\* candidate edges into / out of node n
CandIn(n) == {e \in cand_graph.edges : e[2] = n}
CandOut(n) == {e \in cand_graph.edges : e[1] = n}

\* the objective value of the returned graph under the attached costs
ReturnedObjective ==
    Objective(costs,
              [n \in NodeSet(cand_graph) |-> NodeCost(cand_graph, costs, n)],
              [e \in cand_graph.edges |-> EdgeCost(cand_graph, costs, e)],
              Returned)

\* no attached cost has a negative weight or a negative constant
NonNegativeCosts ==
    /\ costs.node_weight >= 0 /\ costs.node_constant >= 0
    /\ costs.edge_weight >= 0 /\ costs.edge_constant >= 0
    /\ costs.appear_constant >= 0 /\ costs.split_constant >= 0

\* C8: in every graph a solve function returns, each selected edge has its
\* source and its target among the selected nodes.
C8_SelectedEdgeHasEndpoints ==
    Solved =>
        \A e \in solution_graph.edges :
            e[1] \in NodeSet(solution_graph) /\ e[2] \in NodeSet(solution_graph)

\* C8 witness: solve_drift_optimization returned a graph with an edge.
C8_Witness ==
    Solved /\ costs = DriftCosts /\ solution_graph.edges # {}

\* C9: in every solution with MaxParents(1) and MaxChildren(2) attached every
\* node has at most 1 selected incoming and at most 2 selected outgoing edges.
C9_DegreeBounds ==
    Solved =>
        \A n \in NodeSet(cand_graph) :
            /\ Cardinality(InSel(Returned, n)) <= max_parents
            /\ Cardinality(OutSel(Returned, n)) <= max_children

\* C9 witness: solve_basic_optimization, ending optimal, keeps exactly two of
\* the three candidate children of a node, each with that node as only parent.
C9_Witness ==
    /\ solver_status = "optimal"
    /\ costs = BasicCosts
    /\ \E n \in NodeSet(cand_graph) :
           /\ Cardinality(CandOut(n)) = 3
           /\ Cardinality(OutSel(Returned, n)) = 2
           /\ \A e \in OutSel(Returned, n) : InSel(Returned, e[2]) = {e}

AllZero == [nodes |-> {}, edges |-> {}]

\* the nodes of the candidate graph, in node order, whose frame is neither the
\* first nor the last frame that holds a node
InteriorNodes ==
    SelectSeq(cand_graph.nodes,
              LAMBDA n : T(n) # Min(OccupiedFrames) /\ T(n) # Max(OccupiedFrames))

\* the assignments to the edge indicators of the candidate graph (with the
\* incident nodes selected)
EdgeAssignments ==
    { [nodes |-> {e[1] : e \in E} \cup {e[2] : e \in E}, edges |-> E] :
          E \in SUBSET cand_graph.edges }

\* node n has neither an incoming nor an outgoing candidate edge
Isolated(n) == CandIn(n) = {} /\ CandOut(n) = {}

\* C11: for every candidate graph the all-zero assignment satisfies every
\* constraint of the model, those InOutSymmetry and MinTrackLength(1) generate
\* included, so the model is never infeasible.
C11_AllZeroIsFeasible ==
    pc = "edges" =>
        /\ AppearNodes(AllZero) = {} /\ SplitNodes(AllZero) = {}
        /\ EdgeImpliesEndpoints(cand_graph, AllZero)
        /\ MaxParents(cand_graph, AllZero, max_parents)
        /\ MaxChildren(cand_graph, AllZero, max_children)
        /\ LET in_out == InOutSymmetryInstantiate(cand_graph)
               min_track == MinTrackLengthInstantiate(cand_graph)
           IN /\ \A i \in 1..Len(in_out) : Satisfies(AllZero, in_out[i])
              /\ \A i \in 1..Len(min_track) : Satisfies(AllZero, min_track[i])
        /\ ~Solved =>
               AllZero \in Feasible(cand_graph,
                                    {"MaxParents", "MaxChildren"} \cup UtilsConstraints)

\* C11 witness: a solver with both constraints attached, on a graph with an
\* interior node that has candidate edges on both sides, returned the all-zero
\* assignment.
C11_Witness ==
    /\ Solved
    /\ UtilsConstraints \subseteq solver_constraints
    /\ \E i \in 1..Len(InteriorNodes) :
           CandIn(InteriorNodes[i]) # {} /\ CandOut(InteriorNodes[i]) # {}
    /\ Returned = AllZero

\* C12: InOutSymmetry generates exactly one constraint for every node whose
\* frame is neither the first nor the last frame of the graph, satisfied
\* exactly by the assignments with as many selected incoming as selected
\* outgoing edges at that node, and no constraint for any other node.
C12_OneSymmetryConstraintPerInteriorNode ==
    (Solved /\ "InOutSymmetry" \in solver_constraints) =>
        LET generated == InOutSymmetryInstantiate(cand_graph)
            interior == InteriorNodes
            assignments == EdgeAssignments
        IN /\ Len(generated) = Len(interior)
           /\ \A i \in 1..Len(generated) : \A sel \in assignments :
                  Satisfies(sel, generated[i])
                  <=> Cardinality(InSel(sel, interior[i]))
                          = Cardinality(OutSel(sel, interior[i]))

\* C12 witness: with InOutSymmetry attached, the returned selection has a node
\* of the first frame with a selected outgoing edge (and no incoming one) that
\* leads to an interior node.
C12_Witness ==
    /\ Solved
    /\ "InOutSymmetry" \in solver_constraints
    /\ \E e \in solution_graph.edges :
           /\ T(e[1]) = Min(OccupiedFrames)
           /\ e[2] \in Range(InteriorNodes)

\* C13: with MinTrackLength(1) attached, in every feasible assignment every
\* node whose appear indicator is 1 has at least one selected outgoing edge.
C13_AppearingNodeHasOutgoingEdge ==
    (Solved /\ "MinTrackLength" \in solver_constraints) =>
        \A n \in AppearNodes(Returned) : OutSel(Returned, n) # {}

\* C13 witness: with MinTrackLength(1) attached, a track of one edge was
\* returned: its first node appears, its second node has no outgoing edge.
C13_Witness ==
    /\ Solved
    /\ "MinTrackLength" \in solver_constraints
    /\ \E e \in solution_graph.edges :
           /\ e[1] \in AppearNodes(Returned)
           /\ OutSel(Returned, e[2]) = {}

\* C14: with MinTrackLength(1) attached, a node with no incoming and no
\* outgoing candidate edge is unselected in every feasible solution, also when
\* selecting it would lower the objective.
C14_IsolatedNodeUnselected ==
    (Solved /\ "MinTrackLength" \in solver_constraints) =>
        \A n \in NodeSet(cand_graph) :
            Isolated(n) => n \notin NodeSet(solution_graph)

\* C14 witness: an optimal solution with MinTrackLength(1) attached selects
\* other nodes and leaves out an isolated node of negative selection cost.
C14_Witness ==
    /\ solver_status = "optimal"
    /\ "MinTrackLength" \in solver_constraints
    /\ solution_graph.nodes # <<>>
    /\ \E n \in NodeSet(cand_graph) :
           /\ Isolated(n)
           /\ NodeCost(cand_graph, costs, n) < 0
           /\ n \notin NodeSet(solution_graph)

\* C15: MinTrackLength(min_edges) raises NotImplementedError and yields no
\* constraint object for every min_edges other than 1, and constructs the
\* object for min_edges = 1.
C15_OnlyMinEdgesOneConstructs ==
    min_track_length.args # <<>> =>
        LET min_edges == min_track_length.args[1]
        IN /\ min_edges # 1 =>
                  /\ min_track_length.raised = "NotImplementedError"
                  /\ pc = "NotImplementedError"
                  /\ min_track_length.object = {}
                  /\ ~Solved
           /\ min_edges = 1 =>
                  /\ min_track_length.raised = "none"
                  /\ pc = "edges"
                  /\ min_track_length.object = {[min_edges |-> 1]}

\* C15 witness: MinTrackLength(2) was called and raised.
C15_Witness ==
    /\ min_track_length.args = <<2>>
    /\ pc = "NotImplementedError"

(* ======================= track projection claims ======================= *)
\* relabel_segmentation has returned
Relabelled == tracked_masks # <<>>

\* the track id of node n of the solution graph
TrackletId(n) == Attr(solution_graph, n).tracklet_id

\* division points: nodes with more than one selected outgoing edge
DivisionPoints == {n \in NodeSet(solution_graph) : Cardinality(OutSel(Returned, n)) > 1}

\* the selected edges that are not an outgoing edge of a division point
TrackEdges == {e \in solution_graph.edges : e[1] \notin DivisionPoints}

RECURSIVE Joined(_, _)
\* the nodes joined to a node of S by a path of edges of E, direction ignored
Joined(S, E) ==
    LET more == S \cup {e[2] : e \in {d \in E : d[1] \in S}}
                  \cup {e[1] : e \in {d \in E : d[2] \in S}}
    IN IF more = S THEN S ELSE Joined(more, E)

\* the partition of the nodes of g by tracklet_id
TrackPartition(g) ==
    { {n \in NodeSet(g) : Attr(g, n).tracklet_id = Attr(g, m).tracklet_id} :
          m \in NodeSet(g) }

\* C16: Track Projection gives two nodes of a solution subgraph the same track
\* id if and only if a path of selected edges, direction ignored, that uses no
\* outgoing edge of a division point joins them.
C16_SameTrackIffJoined ==
    Relabelled =>
        \A u \in NodeSet(solution_graph) :
            LET joined == Joined({u}, TrackEdges)
            IN \A v \in NodeSet(solution_graph) :
                   (TrackletId(u) = TrackletId(v)) <=> (v \in joined)

\* C16 witness: a projected solution with a two-edge chain in one track, a
\* division, and a node of another track.
C16_Witness ==
    /\ Relabelled
    /\ DivisionPoints # {}
    /\ \E u, v, w \in NodeSet(solution_graph) :
           /\ <<u, v>> \in TrackEdges
           /\ TrackletId(u) = TrackletId(v)
           /\ TrackletId(w) # TrackletId(u)

\* C17: a node with two selected outgoing edges keeps the track id of the
\* chain leading into it, and its two children get track ids that differ from
\* each other and from the parent's.
C17_DivisionStartsTwoTracks ==
    Relabelled =>
        \A p \in NodeSet(solution_graph) :
            Cardinality(OutSel(Returned, p)) = 2 =>
                /\ \A e \in InSel(Returned, p) :
                       e[1] \notin DivisionPoints => TrackletId(p) = TrackletId(e[1])
                /\ \A d1, d2 \in OutSel(Returned, p) :
                       /\ TrackletId(d1[2]) # TrackletId(p)
                       /\ d1 # d2 => TrackletId(d1[2]) # TrackletId(d2[2])

\* C17 witness: a projected solution in which a node with a selected incoming
\* edge divides.
C17_Witness ==
    /\ Relabelled
    /\ \E p \in NodeSet(solution_graph) :
           /\ Cardinality(OutSel(Returned, p)) = 2
           /\ \E e \in InSel(Returned, p) : TrackletId(e[1]) = TrackletId(p)

\* C18: projecting the solution graph from which the outgoing edges of the
\* division points were removed gives the same partition of the nodes into
\* tracks as the first projection.
C18_ProjectionIdempotent ==
    Relabelled =>
        \A first_id \in FirstTrackletIds :
            TrackPartition(AssignTrackletIds([solution_graph EXCEPT !.edges = TrackEdges],
                                             first_id))
            = TrackPartition(solution_graph)

\* C18 witness: a projected solution with a division, so that the second
\* projection runs on a graph with fewer edges, and more than two tracks.
C18_Witness ==
    /\ Relabelled
    /\ TrackEdges # solution_graph.edges
    /\ TrackEdges # {}
    /\ Cardinality(TrackPartition(solution_graph)) > 2

\* the scenario of C19: detections at (0,0), (1,0), (2,0) in the frames 0, 1,
\* 2, max_edge_distance 5, node cost -1 * score with score 1.0, edge cost
\* 1 * distance - 10
LineScenario ==
    /\ segmentation = LineSeg([t \in 0..2 |-> t])
    /\ probabilities = LineProbs
    /\ max_edge_distance = 5
    /\ costs = [node_weight |-> -1, node_constant |-> 0,
                edge_attribute |-> "distance", edge_weight |-> 1, edge_constant |-> -100,
                appear_constant |-> 0, split_constant |-> 0]

\* C19: in the scenario the optimal solution selects the 3 nodes and both
\* edges, and Track Projection puts the 3 detections in one track.
C19_LineScenarioOneTrack ==
    (LineScenario /\ solver_status = "optimal") =>
        /\ NodeSet(solution_graph) = {1, 2, 3}
        /\ solution_graph.edges = {<<1, 2>>, <<2, 3>>}
        /\ Relabelled =>
               /\ TrackletId(1) = TrackletId(2) /\ TrackletId(2) = TrackletId(3)
               /\ \A t \in 0..2 : tracked_masks[t][<<t, 0>>] = TrackletId(1)

\* C19 witness: the scenario, solved to optimality and projected, with the
\* three nodes at (0,0), (1,0), (2,0) and score 1.0.
C19_Witness ==
    /\ LineScenario
    /\ solver_status = "optimal"
    /\ Relabelled
    /\ \A n \in 1..3 : /\ Pos(cand_graph, n) = <<n - 1, 0>>
                        /\ T(n) = n - 1
                        /\ Attr(cand_graph, n).score = 10

\* C20: in the array relabel_segmentation returns, every pixel of a region
\* whose id is a node of the solution graph holds that node's track id, in the
\* node's frame, and every other pixel is 0.
C20_MasksHoldTrackIds ==
    Relabelled =>
        \A t \in DOMAIN segmentation : \A p \in DOMAIN segmentation[t] :
            LET id == segmentation[t][p]
            IN IF id \in NodeSet(solution_graph)
               THEN /\ Attr(solution_graph, id).t = t
                    /\ tracked_masks[t][p] = TrackletId(id)
               ELSE tracked_masks[t][p] = 0

\* C20 witness: a relabelled array with the regions of two tracks and an
\* unselected region dropped to background.
C20_Witness ==
    /\ Relabelled
    /\ \E t1, t2, t3 \in DOMAIN segmentation :
           \E p1 \in DOMAIN segmentation[t1], p2 \in DOMAIN segmentation[t2],
              p3 \in DOMAIN segmentation[t3] :
               /\ tracked_masks[t1][p1] # 0
               /\ tracked_masks[t2][p2] # 0
               /\ tracked_masks[t1][p1] # tracked_masks[t2][p2]
               /\ segmentation[t3][p3] # 0
               /\ segmentation[t3][p3] \notin NodeSet(solution_graph)
               /\ tracked_masks[t3][p3] = 0

(* ====================== solve function results ========================= *)
\* C21: the value a solve function returns tells a solution solved to
\* optimality from a time-limited incumbent: a graph returned at the time
\* limit is none of the graphs returned with proven optimality.
C21_TimeLimitObservable ==
    solver_status = "time_limit" =>
        Returned \notin Optimal(cand_graph, costs, solver_constraints)

\* C22: every node and every edge of the graph a solve function returns is a
\* node, with the same attributes, or an edge of the candidate graph passed in.
C22_SolutionWithinCandidates ==
    (Solved /\ ~Relabelled) =>
        /\ \A i \in 1..Len(solution_graph.nodes) :
               /\ solution_graph.nodes[i] \in NodeSet(cand_graph)
               /\ solution_graph.attrs[i] = Attr(cand_graph, solution_graph.nodes[i])
        /\ solution_graph.edges \subseteq cand_graph.edges
        /\ \A e \in DOMAIN solution_graph.drift_dist :
               e \in DOMAIN cand_graph.drift_dist
               /\ solution_graph.drift_dist[e] = cand_graph.drift_dist[e]

\* C22 witness: a returned graph with an edge that leaves out a candidate node
\* and a candidate edge.
C22_Witness ==
    /\ Solved
    /\ solution_graph.edges # {}
    /\ solution_graph.edges # cand_graph.edges
    /\ NodeSet(solution_graph) # NodeSet(cand_graph)

C28_OnlyAddsEdges ==
    [][ (pc \in {"nodes", "edges"} /\ pc' \in {"edges", "edges_again"}) =>
            /\ cand_graph'.nodes = cand_graph.nodes
            /\ cand_graph'.attrs = cand_graph.attrs
            /\ cand_graph.edges \subseteq cand_graph'.edges
            /\ (pc = "edges" /\ max_edge_distance' = max_edge_distance)
                   => cand_graph' = cand_graph ]_vars

\* C28 witness: a second call with the same distance on a graph that has an
\* edge and a node without any edge.
C28_Witness ==
    /\ pc = "edges_again"
    /\ cand_graph.edges # {}
    /\ \E n \in NodeSet(cand_graph) : Isolated(n)
    /\ \A e \in cand_graph.edges : Close(e[1], e[2])
    /\ \E u, v \in NodeSet(cand_graph) :
           T(v) = T(u) + 1 /\ Close(u, v) /\ max_edge_distance = MaxDist

\* C29: add_cand_edges on a graph with no nodes does not return normally: it
\* raises when taking the first frame, and the graph keeps no node and no
\* edge.
C29_EmptyGraphRaises ==
    /\ pc = "IndexError" => cand_graph = EmptyGraph
    /\ pc \in {"nodes", "edges"} =>
           (Len(cand_graph.nodes) = 0 <=> Detections(segmentation) = {})
    /\ pc = "edges" => Len(cand_graph.nodes) > 0

\* C29 witness: add_cand_edges raised on the graph of a label array without
\* any detection.
C29_Witness ==
    /\ pc = "IndexError"
    /\ Detections(segmentation) = {}
    /\ cand_graph.nodes = <<>>
    /\ cand_graph.edges = {}

(* ===================== flow through interior frames ==================== *)
RECURSIVE Downstream(_, _)
\* the nodes reached from a node of S along edges of E
Downstream(S, E) ==
    LET more == S \cup {e[2] : e \in {d \in E : d[1] \in S}}
    IN IF more = S THEN S ELSE Downstream(more, E)

RECURSIVE Upstream(_, _)
\* the nodes from which a node of S is reached along edges of E
Upstream(S, E) ==
    LET more == S \cup {e[1] : e \in {d \in E : d[2] \in S}}
    IN IF more = S THEN S ELSE Upstream(more, E)

\* C26: with InOutSymmetry, MaxParents(1) and MinTrackLength(1) attached,
\* every selected node of every feasible solution lies on a path of selected
\* edges from a node of the first frame to a node of the last frame, no
\* selected node of an interior frame lacks a selected incoming or outgoing
\* edge, and a graph with a single frame has only the empty solution.
C26_TracksSpanAllFrames ==
    (Solved /\ {"InOutSymmetry", "MaxParents", "MinTrackLength"} \subseteq solver_constraints) =>
        LET selected == NodeSet(solution_graph)
            first == {n \in selected : T(n) = Min(OccupiedFrames)}
            last == {n \in selected : T(n) = Max(OccupiedFrames)}
            from_first == Downstream(first, solution_graph.edges)
            to_last == Upstream(last, solution_graph.edges)
        IN /\ \A n \in selected :
                  /\ n \in from_first /\ n \in to_last
                  /\ n \notin first => InSel(Returned, n) # {}
                  /\ n \notin last => OutSel(Returned, n) # {}
           /\ Cardinality(OccupiedFrames) = 1 => selected = {}

\* C26 witness: the three constraints attached, and a returned track that
\* runs from the first frame through an interior frame to the last frame.
C26_Witness ==
    /\ Solved
    /\ {"InOutSymmetry", "MaxParents", "MinTrackLength"} \subseteq solver_constraints
    /\ \E e1, e2 \in solution_graph.edges :
           /\ e1[2] = e2[1]
           /\ T(e1[1]) = Min(OccupiedFrames)
           /\ T(e2[2]) = Max(OccupiedFrames)

\* C27: with InOutSymmetry and MaxParents(1) attached, no node outside the
\* first frame has two selected outgoing edges in a feasible solution, with
\* or without MaxChildren(2).
C27_NoDivisionAfterFirstFrame ==
    (Solved /\ {"InOutSymmetry", "MaxParents"} \subseteq solver_constraints) =>
        \A n \in NodeSet(cand_graph) :
            T(n) # Min(OccupiedFrames) => Cardinality(OutSel(Returned, n)) <= 1

\* C27 witness: with both constraints attached, a node of the first frame has
\* two selected outgoing edges in the returned solution.
C27_Witness ==
    /\ Solved
    /\ {"InOutSymmetry", "MaxParents"} \subseteq solver_constraints
    /\ \E n \in NodeSet(cand_graph) :
           /\ T(n) = Min(OccupiedFrames)
           /\ Cardinality(OutSel(Returned, n)) = 2

(* ======================== ground-truth claims ========================== *)
\* the rows of the CSV that name a parent
RowsWithParent == {i \in 1..Len(gt_csv) : gt_csv[i].parent_id # -1}

\* C24: the graph read_gt_tracks returns has exactly one node per row of the
\* CSV, every node carries t, x and y, there is an edge parent_id -> id
\* exactly for the rows whose parent_id is not -1, and no edge brings in a
\* node without attributes.
C24_OneAttributedNodePerRow ==
    gt_pc # "start" =>
        /\ Len(gt_tracks.nodes) = Len(gt_csv)
        /\ Range(gt_tracks.nodes) = {gt_csv[i].id : i \in 1..Len(gt_csv)}
        /\ \A i \in 1..Len(gt_tracks.nodes) : gt_tracks.attrs[i].keys = {"t", "x", "y"}
        /\ gt_tracks.edges = {<<gt_csv[i].parent_id, gt_csv[i].id>> : i \in RowsWithParent}

\* the candidate node a ground-truth node falls inside (0: none)
CandOf(gt_node) == GetCandId(gt_node, gt_tracks, segmentation)

\* the candidate edges that correspond to a ground-truth edge
MatchedEdges ==
    {e \in ValidationGraph(cand_graph).edges :
        \E d \in gt_tracks.edges : CandOf(d[1]) = e[1] /\ CandOf(d[2]) = e[2]}

\* C25: after add_gt_annotations, the candidate edge that corresponds to a
\* ground-truth edge has gt = True, and every other edge leaving that
\* candidate node has gt = False, whatever the order of the ground-truth
\* nodes and also when two of them fall inside the same candidate
\* segmentation.
C25_MatchedEdgesAnnotatedTrue ==
    gt_pc = "annotated" =>
        \A e \in MatchedEdges :
            /\ e \in DOMAIN cand_gt.edges /\ cand_gt.edges[e]
            /\ \A d \in ValidationGraph(cand_graph).edges :
                   (d[1] = e[1] /\ d \notin MatchedEdges) =>
                       (d \in DOMAIN cand_gt.edges /\ ~cand_gt.edges[d])

====
